---- MODULE Spec2Model ----
(***************************************************************************)
(* VibeWalk backend (src/backend/main.py): the Qdrant collection and its   *)
(* seeding at startup, the /report endpoint, route generation through      *)
(* OSRM, and score_route as called by the /routes endpoint.                *)
(*                                                                         *)
(* Numbers.  Similarities and scores are decimal fixed point in            *)
(* hundredths: a similarity of 0.65 is 65, a score of 10.0 is 1000.        *)
(* Latitudes and longitudes are in 1/10000 of a degree: 40.7505 is 407505. *)
(* Text is a sequence of one-character strings, so that split(":") and     *)
(* len() are computed on characters.                                       *)
(*                                                                         *)
(* The model has one Qdrant instance, the one `qdrant` is bound to; which  *)
(* stored points lie within the radius of a query is left open.            *)
(***************************************************************************)
EXTENDS Integers, Sequences, FiniteSets, TLC

VARIABLES
    collections,          \* names of the collections the Qdrant instance holds
    store,                \* points of COLLECTION_NAME: records [id, vector, payload]
    serving,              \* TRUE once startup_event has returned without raising
    uuid_count,           \* number of uuid4() values drawn so far
    report_status,        \* outcome of the last /report call
    pc,                   \* position of the /routes request
    paths,                \* get_routes: paths
    route_i,              \* get_routes: i of enumerate(paths)
    response,             \* get_routes: response
    path,                 \* score_route: path
    sampled_points,       \* score_route: sampled_points
    k,                    \* score_route: position in sampled_points (1-based)
    total_danger_score,   \* score_route: total_danger_score
    hit_count,            \* score_route: hit_count
    detected_tags,        \* score_route: detected_tags
    recommendations,      \* score_route: recommendations
    danger_hits,          \* score_route: result of the last danger query
    rec_hits,             \* score_route: result of the last recommendation query
    rec_query_count,      \* number of recommendation queries issued by this call
    analysis,             \* get_routes: the dict the last score_route call returned
    legs,                 \* generate_real_paths: results of its five fetch_osrm_route calls
    startups              \* number of process starts so far

indexVars == <<collections, store, serving, uuid_count, report_status, startups>>
scoreVars == <<path, sampled_points, k, total_danger_score, hit_count,
               detected_tags, recommendations, danger_hits, rec_hits,
               rec_query_count>>
routeVars == <<pc, paths, route_i, response, analysis, legs>>
routeVars_rest == <<paths, route_i, response, analysis, legs>>
vars == <<collections, store, serving, uuid_count, report_status,
          pc, paths, route_i, response,
          path, sampled_points, k, total_danger_score, hit_count,
          detected_tags, recommendations, danger_hits, rec_hits,
          rec_query_count, analysis, legs, startups>>

(***************************************************************************)
(* Bounds of the model.                                                    *)
(***************************************************************************)
MaxCrime == 2        \* records in the crime data set fetched by seeding
MaxReports == 2      \* /report calls that reach the upsert
MaxStartups == 3     \* process starts
MaxLeg == 2          \* points of the longest OSRM geometry of one leg
MaxPathLen == 25     \* points of the longest path scored against an empty index
MaxScoreLen == 3     \* points of the longest path scored against a filled index

Min(a, b) == IF a < b THEN a ELSE b
Max(a, b) == IF a > b THEN a ELSE b

(***************************************************************************)
(* Texts.                                                                  *)
(***************************************************************************)
\* "Crime Report: "
CrimePrefix ==
    <<"C","r","i","m","e"," ","R","e","p","o","r","t",":"," ">>
\* "Unspecified Crime"
UnspecifiedCrime ==
    <<"U","n","s","p","e","c","i","f","i","e","d"," ","C","r","i","m","e">>
\* "Joe's Pizza - Best slice in NY! Felt super safe and busy."
JoesText ==
    <<"J","o","e","'","s"," ","P","i","z","z","a"," ","-"," ","B","e","s","t"," ","s","l","i","c","e"," ","i","n"," ","N","Y","!"," ","F","e","l","t"," ","s","u","p","e","r"," ","s","a","f","e"," ","a","n","d"," ","b","u","s","y",".">>
\* "Bryant Park - Lovely place to sit and have coffee. Security is visible."
BryantText ==
    <<"B","r","y","a","n","t"," ","P","a","r","k"," ","-"," ","L","o","v","e","l","y"," ","p","l","a","c","e"," ","t","o"," ","s","i","t"," ","a","n","d"," ","h","a","v","e"," ","c","o","f","f","e","e","."," ","S","e","c","u","r","i","t","y"," ","i","s"," ","v","i","s","i","b","l","e",".">>
\* "MOMA - Amazing art, very secure entrance and clean area."
MomaText ==
    <<"M","O","M","A"," ","-"," ","A","m","a","z","i","n","g"," ","a","r","t",","," ","v","e","r","y"," ","s","e","c","u","r","e"," ","e","n","t","r","a","n","c","e"," ","a","n","d"," ","c","l","e","a","n"," ","a","r","e","a",".">>
\* "High Line - Beautiful walk, filled with tourists and families."
HighLineText ==
    <<"H","i","g","h"," ","L","i","n","e"," ","-"," ","B","e","a","u","t","i","f","u","l"," ","w","a","l","k",","," ","f","i","l","l","e","d"," ","w","i","t","h"," ","t","o","u","r","i","s","t","s"," ","a","n","d"," ","f","a","m","i","l","i","e","s",".">>
\* "Subway Station Entrance - A bit sketchy at night, saw some fights."
SubwayText ==
    <<"S","u","b","w","a","y"," ","S","t","a","t","i","o","n"," ","E","n","t","r","a","n","c","e"," ","-"," ","A"," ","b","i","t"," ","s","k","e","t","c","h","y"," ","a","t"," ","n","i","g","h","t",","," ","s","a","w"," ","s","o","m","e"," ","f","i","g","h","t","s",".">>
\* "Dark alley behavior near 8th Ave, avoid alone."
AlleyText ==
    <<"D","a","r","k"," ","a","l","l","e","y"," ","b","e","h","a","v","i","o","r"," ","n","e","a","r"," ","8","t","h"," ","A","v","e",","," ","a","v","o","i","d"," ","a","l","o","n","e",".">>
\* "ROBBERY"
Robbery ==
    <<"R","O","B","B","E","R","Y">>
\* "Mugging: two men, 7th Ave"
MuggingText ==
    <<"M","u","g","g","i","n","g",":"," ","t","w","o"," ","m","e","n",","," ","7","t","h"," ","A","v","e">>
\* "broken streetlight" (18 characters)
StreetlightText ==
    <<"b","r","o","k","e","n"," ","s","t","r","e","e","t","l","i","g","h","t">>
\* "no light on this block at 1am" (29 characters)
Text29 ==
    <<"n","o"," ","l","i","g","h","t"," ","o","n"," ","t","h","i","s"," ","b","l","o","c","k"," ","a","t"," ","1","a","m">>
\* "no lights on this block at 1am" (30 characters)
Text30 ==
    <<"n","o"," ","l","i","g","h","t","s"," ","o","n"," ","t","h","i","s"," ","b","l","o","c","k"," ","a","t"," ","1","a","m">>
\* "Noise: loud: late"
NoiseText ==
    <<"N","o","i","s","e",":"," ","l","o","u","d",":"," ","l","a","t","e">>
\* "Joe's Pizza: cash only"
JoesOtherText ==
    <<"J","o","e","'","s"," ","P","i","z","z","a",":"," ","c","a","s","h"," ","o","n","l","y">>
EmptyText == <<>>

\* payload.get(key, default)
Get(payload, key, default) ==
    IF key \in DOMAIN payload THEN payload[key] ELSE default

(***************************************************************************)
(* Configuration.                                                          *)
(***************************************************************************)
COLLECTION_NAME == "city_vibes_nyc"
BatchSize == 100

(***************************************************************************)
(* The embedding.  A stored vector is represented by its cosine similarity *)
(* to the two concept vectors, which is all a query reads of it.           *)
(***************************************************************************)
Vec(d, v) == [danger |-> d, vibe |-> v]

\* get_vector(text): the embedding model is a fixed function of the text.
get_vector(text) ==
    CASE text = JoesText -> Vec(40, 85)
      [] text = BryantText -> Vec(42, 82)
      [] text = MomaText -> Vec(38, 80)
      [] text = HighLineText -> Vec(35, 84)
      [] text = SubwayText -> Vec(70, 50)
      [] text = AlleyText -> Vec(78, 40)
      [] text = MuggingText -> Vec(82, 30)
      [] text = EmptyText -> Vec(50, 50)
      [] OTHER -> Vec(80, 35)

(***************************************************************************)
(* Seeding (seed_nyc_data).                                                *)
(***************************************************************************)
\* Records of the crime data set: pd_desc may be absent (the code defaults it),
\* the place may lie outside the demo area, latitude may be absent (KeyError).
CrimeRecords ==
    { [pd_desc |-> Robbery, latitude |-> 407505, longitude |-> -739934],
      [latitude |-> 407505, longitude |-> -739934],
      [pd_desc |-> Robbery, latitude |-> 406000, longitude |-> -739934],
      [pd_desc |-> Robbery, longitude |-> -739934] }

RECURSIVE SeqsUpTo(_, _)
SeqsUpTo(S, n) ==
    IF n = 0 THEN {<<>>}
    ELSE LET shorter == SeqsUpTo(S, n - 1)
         IN  shorter \cup {Append(s, x) : s \in {t \in shorter : Len(t) = n - 1}, x \in S}

\* What requests.get(data_url).json() yields: a list of records, or an exception.
CrimeFetches == [ok : {FALSE}, data : {<<>>}] \cup [ok : {TRUE}, data : SeqsUpTo(CrimeRecords, MaxCrime)]

\* The loop over crime_data: a record without latitude raises KeyError, which the
\* enclosing try catches; the points appended before it stay.
RECURSIVE CrimePoints(_)
CrimePoints(crime_data) ==
    IF crime_data = <<>> THEN <<>>
    ELSE LET record == Head(crime_data)
             desc == Get(record, "pd_desc", UnspecifiedCrime)
         IN  IF "latitude" \notin DOMAIN record THEN <<>>
             ELSE LET lat == record.latitude
                      lng == record.longitude
                      rest == CrimePoints(Tail(crime_data))
                  IN  IF 407000 < lat /\ lat < 408000 /\ -740200 < lng /\ lng < -739500
                      THEN <<[text |-> CrimePrefix \o desc, type |-> "crime",
                              lat |-> lat, lng |-> lng]>> \o rest
                      ELSE rest

reviews ==
    << [text |-> JoesText, type |-> "review", lat |-> 407305, lng |-> -740021, name |-> "Joe's Pizza"],
       [text |-> BryantText, type |-> "review", lat |-> 407536, lng |-> -739832, name |-> "Bryant Park"],
       [text |-> MomaText, type |-> "review", lat |-> 407614, lng |-> -739776, name |-> "MOMA"],
       [text |-> HighLineText, type |-> "review", lat |-> 407480, lng |-> -740048, name |-> "The High Line"],
       [text |-> SubwayText, type |-> "review", lat |-> 407505, lng |-> -739934, name |-> "Subway Entrance"],
       [text |-> AlleyText, type |-> "review", lat |-> 407550, lng |-> -739920, name |-> "8th Ave Corner"] >>

\* points after both parts of seed_nyc_data
SeedPoints(fetch) ==
    (IF fetch.ok THEN CrimePoints(fetch.data) ELSE <<>>) \o reviews

IntId(n) == [kind |-> "int", n |-> n]
UuidId(n) == [kind |-> "uuid", n |-> n]

\* models.PointStruct(id=i, vector=vector, payload=payload) for points[i + 1]
SeedStruct(points, i) ==
    LET p == points[i + 1]
        base == [text |-> p.text, type |-> p.type,
                 location |-> [lat |-> p.lat, lon |-> p.lng]]
    IN  [id |-> IntId(i),
         vector |-> get_vector(p.text),
         payload |-> IF "name" \in DOMAIN p
                     THEN [text |-> p.text, type |-> p.type,
                           location |-> [lat |-> p.lat, lon |-> p.lng],
                           name |-> p.name]
                     ELSE base]

\* qdrant.upsert: a point replaces the stored point of the same id.
Upsert(points_in, structs) ==
    {r \in points_in : \A s \in structs : s.id # r.id} \cup structs

\* Number of upsert calls of the batch loop for n points: one per full batch of
\* BatchSize, and one for the remainder.
NumBatches(n) == (n + BatchSize - 1) \div BatchSize

\* The store after the first `done` upsert calls of the batch loop.
SeedUpserts(points_in, points, done) ==
    LET upto == Min(Len(points), done * BatchSize)
    IN  Upsert(points_in, {SeedStruct(points, i) : i \in 0..(upto - 1)})

(***************************************************************************)
(* startup_event.  Inputs: whether get_collections answers, whether        *)
(* create_collection answers, what the crime data fetch yields, and how    *)
(* many upsert calls of the batch loop succeed before one raises.          *)
(***************************************************************************)
\* The value of `exists` after the try/except around get_collections.
CollectionExists(get_ok) == get_ok /\ COLLECTION_NAME \in collections

\* The branch of startup_event that creates the collection and seeds it.
ShouldSeed(get_ok) == ~CollectionExists(get_ok)

\* qdrant.recreate_collection in the place of create_collection: an existing
\* collection is dropped and created anew.
recreate_collection(create_ok) ==
    IF ~create_ok
    THEN [raised |-> TRUE, points |-> store]
    ELSE [raised |-> FALSE, points |-> {}]

\* qdrant.create_collection: raises when the instance does not answer or
\* already holds the collection; otherwise the collection exists, empty.
create_collection(create_ok) ==
    IF ~create_ok \/ COLLECTION_NAME \in collections
    THEN [raised |-> TRUE, points |-> store]
    ELSE [raised |-> FALSE, points |-> {}]

StartupEvent ==
    /\ startups < MaxStartups
    /\ startups' = startups + 1
    /\ \E get_ok \in BOOLEAN :
         IF ShouldSeed(get_ok)
         THEN \E create_ok \in BOOLEAN :
                LET created == create_collection(create_ok)
                IN  IF created.raised
                    THEN \* startup fails
                         /\ serving' = FALSE
                         /\ UNCHANGED <<collections, store>>
                    ELSE \E fetch \in CrimeFetches :
                           LET points == SeedPoints(fetch)
                           IN  \E done \in 0..NumBatches(Len(points)) :
                                 /\ collections' = collections \cup {COLLECTION_NAME}
                                 /\ store' = SeedUpserts(created.points, points, done)
                                 /\ serving' = (done = NumBatches(Len(points)))
         ELSE /\ serving' = TRUE
              /\ UNCHANGED <<collections, store>>
    /\ report_status' = "none"
    /\ UNCHANGED <<uuid_count, scoreVars, routeVars>>

(***************************************************************************)
(* POST /report.  A request body gives each field as a number, a string,   *)
(* or not at all; VibeReport (pydantic) requires lat and lng to be numbers *)
(* and description and type to be strings, and checks nothing else.        *)
(***************************************************************************)
Num(n) == [t |-> "num", n |-> n, s |-> EmptyText]
Str(s) == [t |-> "str", n |-> 0, s |-> s]
Absent == [t |-> "absent", n |-> 0, s |-> EmptyText]
\* the string "report" or "review" as the value of the type field
TypeStr(name) == [t |-> "str", n |-> 0, s |-> name]

ReportBodies ==
    { [lat |-> Num(407505), lng |-> Num(-739934), description |-> Str(MuggingText), type |-> TypeStr("report")],
      [lat |-> Num(407505), lng |-> Num(-739934), description |-> Str(AlleyText), type |-> TypeStr("review")],
      [lat |-> Num(910000), lng |-> Num(-739934), description |-> Str(MuggingText), type |-> TypeStr("report")],
      [lat |-> Num(407505), lng |-> Num(1810000), description |-> Str(MuggingText), type |-> TypeStr("report")],
      [lat |-> Num(407505), lng |-> Num(-739934), description |-> Str(EmptyText), type |-> TypeStr("report")],
      [lat |-> Str(MuggingText), lng |-> Num(-739934), description |-> Str(MuggingText), type |-> TypeStr("report")],
      [lat |-> Num(407505), lng |-> Num(-739934), description |-> Absent, type |-> TypeStr("report")] }

\* class VibeReport(BaseModel): lat: float, lng: float, description: str, type: str
VibeReport(body) ==
    /\ body.lat.t = "num"
    /\ body.lng.t = "num"
    /\ body.description.t = "str"
    /\ body.type.t = "str"

\* The PointStruct report_vibe upserts.
ReportStruct(body, n) ==
    [id |-> UuidId(n),
     vector |-> get_vector(body.description.s),
     payload |-> [text |-> body.description.s,
                  type |-> body.type.s,
                  location |-> [lat |-> body.lat.n, lon |-> body.lng.n],
                  source |-> "user_report",
                  timestamp |-> n,
                  severity |-> "high"]]

ReportVibe ==
    /\ serving
    /\ uuid_count < MaxReports
    /\ \E body \in ReportBodies, upsert_ok \in BOOLEAN :
         IF ~VibeReport(body)
         THEN \* rejected by the request model: HTTP 422, the handler does not run
              /\ report_status' = "422"
              /\ UNCHANGED <<store, uuid_count>>
         ELSE /\ uuid_count' = uuid_count + 1
              /\ IF upsert_ok /\ COLLECTION_NAME \in collections
                 THEN /\ store' = Upsert(store, {ReportStruct(body, uuid_count + 1)})
                      /\ report_status' = "success"
                 ELSE \* qdrant.upsert raises: HTTP 500
                      /\ report_status' = "500"
                      /\ UNCHANGED store
    /\ UNCHANGED <<collections, serving, startups, scoreVars, routeVars>>

(***************************************************************************)
(* Route generation (fetch_osrm_route, generate_real_paths).               *)
(***************************************************************************)
\* A geometry of n points returned by OSRM for one leg; [] when the call fails
\* or OSRM answers without a route.
Geometry(leg, n) == [i \in 1..n |-> [leg |-> leg, i |-> i]]

\* Point(lat=start_lat, lng=start_lng) and Point(lat=end_lat, lng=end_lng)
start == [leg |-> "start", i |-> 0]
end == [leg |-> "end", i |-> 0]

\* alt_b[1:]
DropFirst(s) == SubSeq(s, 2, Len(s))

\* generate_real_paths with `or` in the place of `and` for the alternates.
generate_real_paths_or(direct, alt1_a, alt1_b, alt2_a, alt2_b) ==
    LET p1 == IF direct # <<>> THEN <<direct>> ELSE <<>>
        p2 == IF alt1_a # <<>> \/ alt1_b # <<>>
              THEN Append(p1, alt1_a \o DropFirst(alt1_b)) ELSE p1
        p3 == IF alt2_a # <<>> \/ alt2_b # <<>>
              THEN Append(p2, alt2_a \o DropFirst(alt2_b)) ELSE p2
    IN  IF p3 = <<>> THEN <<<<start, end>>>> ELSE p3

\* generate_real_paths without the `if direct:` test.
generate_real_paths_unchecked(direct, alt1_a, alt1_b, alt2_a, alt2_b) ==
    LET p1 == <<direct>>
        p2 == IF alt1_a # <<>> /\ alt1_b # <<>>
              THEN Append(p1, alt1_a \o DropFirst(alt1_b)) ELSE p1
        p3 == IF alt2_a # <<>> /\ alt2_b # <<>>
              THEN Append(p2, alt2_a \o DropFirst(alt2_b)) ELSE p2
    IN  IF p3 = <<>> THEN <<<<start, end>>>> ELSE p3

\* The list generate_real_paths returns, from the results of its five
\* fetch_osrm_route calls.
generate_real_paths(direct, alt1_a, alt1_b, alt2_a, alt2_b) ==
    LET p1 == IF direct # <<>> THEN <<direct>> ELSE <<>>
        p2 == IF alt1_a # <<>> /\ alt1_b # <<>>
              THEN Append(p1, alt1_a \o DropFirst(alt1_b)) ELSE p1
        p3 == IF alt2_a # <<>> /\ alt2_b # <<>>
              THEN Append(p2, alt2_a \o DropFirst(alt2_b)) ELSE p2
    IN  IF p3 = <<>> THEN <<<<start, end>>>> ELSE p3

descriptions == <<"Direct Walking Route", "North Alternate", "South Alternate">>

(***************************************************************************)
(* score_route.                                                            *)
(***************************************************************************)
\* SampledPoints without the [:sample_count] cut.
SampledPoints_uncut(p) ==
    LET sample_count == Min(10, Len(p))
        step == Max(1, Len(p) \div sample_count)
    IN  [j \in 1..((Len(p) + step - 1) \div step) |-> p[(j - 1) * step + 1]]

\* sampled_points = [path[i] for i in range(0, len(path), step)][:sample_count]
\* (called with a non-empty path; an empty one raises ZeroDivisionError before)
SampledPoints(p) ==
    LET sample_count == Min(10, Len(p))
        step == Max(1, Len(p) \div sample_count)
        in_range == [j \in 1..((Len(p) + step - 1) \div step) |-> p[(j - 1) * step + 1]]
    IN  SubSeq(in_range, 1, Min(Len(in_range), sample_count))

\* The hit a query reports for a stored point: its similarity to the query vector.
Hit(r, concept) == [score |-> r.vector[concept], payload |-> r.payload]

NoFilter == "<none>"

\* qdrant.query_points(query=concept vector, limit, geo filter, optional type
\* filter).points: the `limit` most similar of the stored points that pass the
\* filters, most similar first.  Which points lie within the radius is left
\* open, so every selection of at most `limit` matching points is a result.
QueryPoints(concept, limit, type_filter) ==
    LET matching == {r \in store : type_filter = NoFilter \/ r.payload.type = type_filter}
        picks == SeqsUpTo(matching, limit)
    IN  { [i \in 1..Len(s) |-> Hit(s[i], concept)] :
            s \in { t \in picks :
                      /\ \A i, j \in 1..Len(t) : i # j => t[i] # t[j]
                      /\ \A i \in 1..(Len(t) - 1) :
                           t[i].vector[concept] >= t[i + 1].vector[concept] } }

\* text.split(":")[0]
SplitFirst(text) ==
    IF \E i \in 1..Len(text) : text[i] = ":"
    THEN LET first == CHOOSE i \in 1..Len(text) :
                        text[i] = ":" /\ \A j \in 1..(i - 1) : text[j] # ":"
         IN  SubSeq(text, 1, first - 1)
    ELSE text

InSeq(x, s) == \E i \in 1..Len(s) : s[i] = x

\* The threshold test with >= in the place of >.
IsDanger_inclusive(hit) == hit.score >= 60

\* `if hit.score > 0.60`
IsDanger(hit) == hit.score > 60

\* The tag test without `tag not in detected_tags`.
KeepTag_any(tag, tags) == Len(tag) < 30

\* `if len(tag) < 30 and tag not in detected_tags`
KeepTag(tag, tags) == Len(tag) < 30 /\ ~InSeq(tag, tags)

\* The loop `for hit in danger_hits` on acc = [total, count, tags].
RECURSIVE DangerLoop(_, _)
DangerLoop(hits, acc) ==
    IF hits = <<>> THEN acc
    ELSE LET hit == Head(hits)
             tag == SplitFirst(Get(hit.payload, "text", EmptyText))
         IN  DangerLoop(Tail(hits),
                 IF IsDanger(hit)
                 THEN [total |-> acc.total + hit.score,
                       count |-> acc.count + 1,
                       tags |-> IF KeepTag(tag, acc.tags)
                                THEN Append(acc.tags, tag) ELSE acc.tags]
                 ELSE acc)

\* `if hit.score > 0.75`
IsPositive(hit) == hit.score > 75

\* The loop `for hit in rec_hits` on the recommendations list.
RECURSIVE RecLoop(_, _)
RecLoop(hits, recs) ==
    IF hits = <<>> THEN recs
    ELSE LET hit == Head(hits)
             name == Get(hit.payload, "name", "Unknown Spot")
             desc == Get(hit.payload, "text", EmptyText)
         IN  RecLoop(Tail(hits),
                 IF IsPositive(hit) /\ ~(\E i \in 1..Len(recs) : recs[i].name = name)
                 THEN Append(recs, [name |-> name, description |-> desc, type |-> "place"])
                 ELSE recs)

\* The guard of the recommendation query left out.
WantsRecommendations_always(recs) == TRUE

\* `if len(recommendations) < 2`
WantsRecommendations(recs) == Len(recs) < 2

\* The score without the max(1.0, ...) floor.
FinalScore_nofloor(total) ==
    LET penalty == total * 4
    IN  Min(1000, 1000 - penalty)

\* final_score = max(1.0, min(10.0, 10.0 - total_danger_score * 4.0))
FinalScore(total) ==
    LET penalty == total * 4
    IN  Max(100, Min(1000, 1000 - penalty))

\* detected_tags[:4]
FirstFour(tags) == SubSeq(tags, 1, Min(4, Len(tags)))

\* round(x, 1) on hundredths: to the nearest tenth, a tie to the even tenth.
Round1(x) ==
    LET q == x \div 10
        r == x % 10
    IN  IF r < 5 THEN q * 10
        ELSE IF r > 5 THEN (q + 1) * 10
        ELSE IF q % 2 = 0 THEN q * 10 ELSE (q + 1) * 10

NoAnalysis == [score |-> 0, tags |-> <<>>, recommendations |-> <<>>]

(***************************************************************************)
(* GET /routes: get_routes, with score_route run one query at a time.      *)
(* pc: "idle" no request; "call" at the head of `for i, path in            *)
(* enumerate(paths)`; "danger" and "rec" before the two queries of         *)
(* sampled_points[k]; "final" after the sampling loop; "responded" once    *)
(* get_routes has returned; an exception name once that exception has      *)
(* left get_routes (HTTP 500).                                             *)
(***************************************************************************)
\* Lengths of the geometry of one fetch_osrm_route call: none (the call failed),
\* a single point, and a longer one.
LegLengths == {0, 1, MaxLeg}

NoLegs == [direct |-> <<>>, alt1_a |-> <<>>, alt1_b |-> <<>>, alt2_a |-> <<>>, alt2_b |-> <<>>]

GetRoutes ==
    /\ pc = "idle"
    /\ \E n1, n2, n3, n4, n5 \in LegLengths :
         LET fetched == [direct |-> Geometry("direct", n1),
                         alt1_a |-> Geometry("alt1_a", n2),
                         alt1_b |-> Geometry("alt1_b", n3),
                         alt2_a |-> Geometry("alt2_a", n4),
                         alt2_b |-> Geometry("alt2_b", n5)]
         IN  /\ legs' = fetched
             /\ paths' = generate_real_paths(fetched.direct, fetched.alt1_a, fetched.alt1_b,
                                             fetched.alt2_a, fetched.alt2_b)
    /\ route_i' = 0
    /\ response' = <<>>
    /\ pc' = "call"
    /\ UNCHANGED <<analysis, scoreVars, indexVars>>

\* score_route(path) is entered: the locals are set and the path is sampled.
ScoreRouteEnter ==
    /\ pc = "call"
    /\ route_i < Len(paths)
    /\ path' = paths[route_i + 1]
    /\ total_danger_score' = 0
    /\ hit_count' = 0
    /\ detected_tags' = <<>>
    /\ recommendations' = <<>>
    /\ danger_hits' = <<>>
    /\ rec_hits' = <<>>
    /\ rec_query_count' = 0
    /\ k' = 1
    /\ IF Len(path') = 0
       THEN \* len(path) // sample_count with sample_count = 0
            /\ pc' = "ZeroDivisionError"
            /\ sampled_points' = <<>>
       ELSE /\ pc' = "danger"
            /\ sampled_points' = SampledPoints(path')
    /\ UNCHANGED <<paths, route_i, response, analysis, legs, indexVars>>

\* The danger query for sampled_points[k] answers, and its hits are processed.
DangerQuery ==
    /\ pc = "danger"
    /\ \E hits \in QueryPoints("danger", 2, NoFilter) :
         LET acc == DangerLoop(hits, [total |-> total_danger_score,
                                      count |-> hit_count,
                                      tags |-> detected_tags])
         IN  /\ danger_hits' = hits
             /\ total_danger_score' = acc.total
             /\ hit_count' = acc.count
             /\ detected_tags' = acc.tags
    /\ pc' = "rec"
    /\ UNCHANGED <<path, sampled_points, k, recommendations, rec_hits, rec_query_count,
                   routeVars_rest, indexVars>>

\* qdrant.query_points raises (error or timeout); nothing in score_route or
\* get_routes catches it.
DangerQueryRaises ==
    /\ pc = "danger"
    /\ pc' = "QueryError"
    /\ UNCHANGED <<scoreVars, routeVars_rest, indexVars>>

\* The tail of one iteration of `for p in sampled_points`.
NextPoint ==
    /\ k' = k + 1
    /\ pc' = IF k = Len(sampled_points) THEN "final" ELSE "danger"

\* The recommendation query for sampled_points[k] answers.
RecQuery ==
    /\ pc = "rec"
    /\ WantsRecommendations(recommendations)
    /\ \E hits \in QueryPoints("vibe", 1, "review") :
         /\ rec_hits' = hits
         /\ recommendations' = RecLoop(hits, recommendations)
    /\ rec_query_count' = rec_query_count + 1
    /\ NextPoint
    /\ UNCHANGED <<path, sampled_points, total_danger_score, hit_count, detected_tags,
                   danger_hits, routeVars_rest, indexVars>>

RecQueryRaises ==
    /\ pc = "rec"
    /\ WantsRecommendations(recommendations)
    /\ rec_query_count' = rec_query_count + 1
    /\ pc' = "QueryError"
    /\ UNCHANGED <<path, sampled_points, k, total_danger_score, hit_count, detected_tags,
                   recommendations, danger_hits, rec_hits, routeVars_rest, indexVars>>

\* `if len(recommendations) < 2` is false: no recommendation query for this point.
RecSkip ==
    /\ pc = "rec"
    /\ ~WantsRecommendations(recommendations)
    /\ NextPoint
    /\ UNCHANGED <<path, sampled_points, total_danger_score, hit_count, detected_tags,
                   recommendations, danger_hits, rec_hits, rec_query_count,
                   routeVars_rest, indexVars>>

\* The dict score_route returns.
ScoreRouteResult(total, tags, recs) ==
    [score |-> FinalScore(total), tags |-> FirstFour(tags), recommendations |-> recs]

\* RouteOption(id=f"route-{i}", ...)
RouteOption(i, p, a) ==
    [id |-> i, path |-> p, safety_score |-> Round1(a.score), tags |-> a.tags,
     description |-> descriptions[i + 1], recommendations |-> a.recommendations]

\* score_route returns and get_routes appends the RouteOption.
ScoreRouteReturn ==
    /\ pc = "final"
    /\ analysis' = ScoreRouteResult(total_danger_score, detected_tags, recommendations)
    /\ IF route_i + 1 > Len(descriptions)
       THEN \* descriptions[i]
            /\ pc' = "IndexError"
            /\ UNCHANGED <<response, route_i>>
       ELSE /\ response' = Append(response, RouteOption(route_i, path, analysis'))
            /\ route_i' = route_i + 1
            /\ pc' = "call"
    /\ UNCHANGED <<paths, legs, scoreVars, indexVars>>

GetRoutesReturn ==
    /\ pc = "call"
    /\ route_i = Len(paths)
    /\ pc' = "responded"
    /\ UNCHANGED <<paths, route_i, response, analysis, legs, scoreVars, indexVars>>

(***************************************************************************)
(* Contents of the collection that score_route is run against.             *)
(***************************************************************************)
Here == [lat |-> 407505, lon |-> -739934]

\* A stored point with the payload seed_nyc_data writes for a crime record.
CrimePoint(n, d, v, text) ==
    [id |-> IntId(n), vector |-> Vec(d, v),
     payload |-> [text |-> text, type |-> "crime", location |-> Here]]

\* A stored point with the payload seed_nyc_data writes for a named review.
ReviewPoint(n, d, v, text, name) ==
    [id |-> IntId(n), vector |-> Vec(d, v),
     payload |-> [text |-> text, type |-> "review", location |-> Here, name |-> name]]

\* A stored point with the payload report_vibe writes (it has no name).
UserPoint(n, d, v, text, type) ==
    [id |-> UuidId(n), vector |-> Vec(d, v),
     payload |-> [text |-> text, type |-> type, location |-> Here,
                  source |-> "user_report", timestamp |-> n, severity |-> "high"]]

\* Danger hits with five different tags, with texts of 29 and 30 characters,
\* with an empty text, and one at the threshold; no review.
TagStore ==
    { CrimePoint(0, 80, 30, CrimePrefix \o Robbery),
      UserPoint(1, 82, 30, MuggingText, "report"),
      UserPoint(2, 80, 30, StreetlightText, "report"),
      UserPoint(3, 80, 30, Text29, "report"),
      UserPoint(4, 80, 30, Text30, "report"),
      UserPoint(5, 80, 30, EmptyText, "report"),
      UserPoint(6, 60, 30, NoiseText, "report") }

\* Reviews: two of the same name, one whose name differs in case only, two
\* without a name, and one at the threshold.
RecStore ==
    { ReviewPoint(0, 40, 85, JoesText, "Joe's Pizza"),
      ReviewPoint(1, 41, 80, JoesOtherText, "Joe's Pizza"),
      ReviewPoint(2, 42, 80, JoesText, "joe's pizza"),
      ReviewPoint(3, 43, 75, MomaText, "MOMA"),
      UserPoint(1, 44, 80, AlleyText, "review"),
      UserPoint(2, 45, 90, StreetlightText, "review") }

\* Danger similarities 1.00, 0.80, 0.65, 0.61, 0.60 and 0.55.
ScoreStore ==
    { CrimePoint(0, 100, 30, CrimePrefix \o Robbery),
      CrimePoint(1, 80, 30, CrimePrefix \o Robbery),
      CrimePoint(2, 65, 30, CrimePrefix \o Robbery),
      CrimePoint(3, 61, 30, CrimePrefix \o Robbery),
      CrimePoint(4, 60, 30, CrimePrefix \o Robbery),
      CrimePoint(5, 55, 30, CrimePrefix \o Robbery) }

\* Two reviews that qualify as recommendations.
RouteStore ==
    { ReviewPoint(1, 40, 85, JoesText, "Joe's Pizza"),
      ReviewPoint(2, 42, 82, BryantText, "Bryant Park") }

(***************************************************************************)
(* Specifications.                                                         *)
(***************************************************************************)
InitScoreVars ==
    /\ path = <<>>
    /\ sampled_points = <<>>
    /\ k = 1
    /\ total_danger_score = 0
    /\ hit_count = 0
    /\ detected_tags = <<>>
    /\ recommendations = <<>>
    /\ danger_hits = <<>>
    /\ rec_hits = <<>>
    /\ rec_query_count = 0

InitNoRequest ==
    /\ pc = "idle"
    /\ paths = <<>>
    /\ route_i = 0
    /\ response = <<>>
    /\ analysis = NoAnalysis
    /\ legs = NoLegs

\* A process that has started against a collection with the given points.
InitServing(points) ==
    /\ collections = {COLLECTION_NAME}
    /\ store = points
    /\ serving = TRUE
    /\ uuid_count = 0
    /\ report_status = "none"
    /\ startups = 1

\* The collection and its writers: a new Qdrant instance, and the process
\* started any number of times with /report calls in between.
InitIndex ==
    /\ collections = {}
    /\ store = {}
    /\ serving = FALSE
    /\ uuid_count = 0
    /\ report_status = "none"
    /\ startups = 0
    /\ InitNoRequest
    /\ InitScoreVars

NextIndex == StartupEvent \/ ReportVibe

SpecIndex == InitIndex /\ [][NextIndex]_vars

\* One GET /routes request against a seeded collection.
InitRoutes ==
    /\ InitServing(RouteStore)
    /\ InitNoRequest
    /\ InitScoreVars

NextScore ==
    \/ ScoreRouteEnter
    \/ DangerQuery
    \/ DangerQueryRaises
    \/ RecQuery
    \/ RecQueryRaises
    \/ RecSkip
    \/ ScoreRouteReturn
    \/ GetRoutesReturn

NextRoutes == GetRoutes \/ NextScore

SpecRoutes == InitRoutes /\ [][NextRoutes]_vars

\* score_route on one path: short paths against the filled collections, paths of
\* up to MaxPathLen points against an empty one.
ScoreInputs ==
    { [points |-> TagStore, longest |-> MaxScoreLen],
      [points |-> RecStore, longest |-> MaxScoreLen],
      [points |-> ScoreStore, longest |-> MaxScoreLen],
      [points |-> {}, longest |-> MaxPathLen] }

InitScore ==
    /\ \E in \in ScoreInputs :
         /\ InitServing(in.points)
         /\ \E n \in 1..in.longest :
              /\ paths = <<Geometry("direct", n)>>
              /\ legs = [NoLegs EXCEPT !.direct = Geometry("direct", n)]
    /\ pc = "call"
    /\ route_i = 0
    /\ response = <<>>
    /\ analysis = NoAnalysis
    /\ InitScoreVars

SpecScore == InitScore /\ [][NextScore]_vars

(***************************************************************************)
(* Properties.                                                             *)
(***************************************************************************)
\* score_route has returned and its locals are those of the call whose result
\* `analysis` holds.
Returned == analysis # NoAnalysis /\ pc \in {"call", "responded"}

\* A step in which a danger query answers and its hits are processed.
DangerStep == pc = "danger" /\ pc' = "rec"

\* A step in which a recommendation query answers and its hits are processed.
RecStep == pc = "rec" /\ rec_query_count' = rec_query_count + 1 /\ pc' # "QueryError"

RECURSIVE SumOver(_, _)
\* The sum of f[i] over the indices i in I.
SumOver(f, I) ==
    IF I = {} THEN 0
    ELSE LET i == CHOOSE x \in I : TRUE IN f[i] + SumOver(f, I \ {i})

Clamp(x, lo, hi) == IF x < lo THEN lo ELSE IF x > hi THEN hi ELSE x

\* C1: the score score_route returns, and the safety_score of every route
\* get_routes reports, lies in [1.0, 10.0].
C1_ScoreInRange ==
    /\ analysis # NoAnalysis => analysis.score >= 100 /\ analysis.score <= 1000
    /\ \A i \in 1..Len(response) :
         response[i].safety_score >= 100 /\ response[i].safety_score <= 1000

\* C1 witness: a call whose penalty exceeds 9.0 has returned the floor 1.0, and
\* the route is reported with it.
C1_Witness ==
    /\ Returned
    /\ total_danger_score * 4 > 900
    /\ analysis.score = 100
    /\ response # <<>>
    /\ response[Len(response)].safety_score = 100

\* C2: each danger query returns at most 2 hits and adds to the total exactly
\* the similarities above 0.60 among them; the total starts at 0; the score
\* returned is clamp(10.0 - 4.0 * total, 1.0, 10.0): 10.0 when no hit was above
\* 0.60, and 4.2 for one sampled point with hits 0.80 and 0.65.
C2_ScoreFormula ==
    /\ [][ /\ DangerStep =>
                /\ Len(danger_hits') <= 2
                /\ total_danger_score' = total_danger_score
                      + SumOver([i \in 1..Len(danger_hits') |-> danger_hits'[i].score],
                                {i \in 1..Len(danger_hits') : danger_hits'[i].score > 60})
           /\ (pc = "call" /\ pc' = "danger") => total_danger_score' = 0
           /\ (pc = "rec" \/ pc = "final") => total_danger_score' = total_danger_score
         ]_vars
    /\ [](Returned =>
            /\ analysis.score = Clamp(1000 - 4 * total_danger_score, 100, 1000)
            /\ total_danger_score = 0 => analysis.score = 1000
            /\ ( /\ Len(sampled_points) = 1
                 /\ Len(danger_hits) = 2
                 /\ danger_hits[1].score = 80
                 /\ danger_hits[2].score = 65 ) => analysis.score = 420)

\* C2 witness: the one-point path with hits 0.80 and 0.65 has been scored 4.2.
C2_Witness ==
    /\ Returned
    /\ Len(sampled_points) = 1
    /\ Len(danger_hits) = 2
    /\ danger_hits[1].score = 80
    /\ danger_hits[2].score = 65
    /\ analysis.score = 420

NamesOf(recs) == {recs[i].name : i \in 1..Len(recs)}

\* C4: the recommendations never exceed 2 entries and never hold a name twice;
\* a recommendation query is issued only with fewer than 2 collected; an entry
\* is added only for a hit above 0.75, under the hit's name ("Unknown Spot"
\* when it has none), and only when no entry has that very name.
C4_Recommendations ==
    /\ [](/\ Len(recommendations) <= 2
          /\ Cardinality(NamesOf(recommendations)) = Len(recommendations)
          /\ Returned => analysis.recommendations = recommendations)
    /\ [][ /\ rec_query_count' # rec_query_count => Len(recommendations) < 2
           /\ RecStep =>
                \/ recommendations' = recommendations
                \/ \E i \in 1..Len(rec_hits') :
                     LET hit == rec_hits'[i]
                         name == IF "name" \in DOMAIN hit.payload
                                 THEN hit.payload.name ELSE "Unknown Spot"
                     IN  /\ hit.score > 75
                         /\ name \notin NamesOf(recommendations)
                         /\ Len(recommendations') = Len(recommendations) + 1
                         /\ SubSeq(recommendations', 1, Len(recommendations)) = recommendations
                         /\ recommendations'[Len(recommendations')].name = name
           /\ RecStep /\ recommendations' = recommendations =>
                \A i \in 1..Len(rec_hits') :
                     \/ rec_hits'[i].score <= 75
                     \/ (IF "name" \in DOMAIN rec_hits'[i].payload
                         THEN rec_hits'[i].payload.name ELSE "Unknown Spot")
                           \in NamesOf(recommendations)
         ]_vars

\* C4 witness: two recommendations whose names differ in case only were
\* collected, and the query of a later sampled point was not issued.
C4_Witness ==
    /\ Returned
    /\ Len(recommendations) = 2
    /\ NamesOf(recommendations) = {"Joe's Pizza", "joe's pizza"}
    /\ rec_query_count < Len(sampled_points)

\* The length of the text before the first ":" of a text: a ":" right after
\* it unless the text ends there, and no ":" up to it.
TagLength(text) ==
    CHOOSE n \in 0..Len(text) :
        /\ n < Len(text) => text[n + 1] = ":"
        /\ \A i \in 1..n : text[i] # ":"

\* The tags of a list of danger hits, hit by hit.
TagsOf(hits) ==
    [i \in 1..Len(hits) |-> SubSeq(hits[i].payload.text, 1, TagLength(hits[i].payload.text))]

NoDuplicates(s) == \A i, j \in 1..Len(s) : i # j => s[i] # s[j]

\* C5: the tags returned are at most 4, without duplicates, and are the first 4
\* of the distinct tags in the order in which they were first seen: each
\* danger query extends the list by the tags it offers that are not yet in
\* it, in the order of its hits.
C5_Tags ==
    /\ [](/\ NoDuplicates(detected_tags)
          /\ Returned =>
               /\ Len(analysis.tags) <= 4
               /\ NoDuplicates(analysis.tags)
               /\ Len(analysis.tags) = Min(4, Len(detected_tags))
               /\ \A i \in 1..Len(analysis.tags) : analysis.tags[i] = detected_tags[i])
    /\ [][ /\ DangerStep =>
                LET tags == TagsOf(danger_hits')
                    \* the hits that offer a tag: above 0.60, tag shorter than 30
                    offering == {i \in 1..Len(tags) :
                                   danger_hits'[i].score > 60 /\ Len(tags[i]) < 30}
                    old == {detected_tags[i] : i \in 1..Len(detected_tags)}
                    new == {tags[i] : i \in offering} \ old
                    n == Len(detected_tags)
                    \* the first hit that offers the tag at position i of the list
                    first(i) == CHOOSE h \in offering :
                                   /\ tags[h] = detected_tags'[i]
                                   /\ \A g \in offering : tags[g] = detected_tags'[i] => h <= g
                IN  /\ Len(detected_tags') = n + Cardinality(new)
                    /\ SubSeq(detected_tags', 1, n) = detected_tags
                    /\ {detected_tags'[i] : i \in (n + 1)..Len(detected_tags')} = new
                    /\ \A i, j \in (n + 1)..Len(detected_tags') :
                         i < j => first(i) < first(j)
           /\ (pc = "call" /\ pc' = "danger") => detected_tags' = <<>>
           /\ (pc = "rec" \/ pc = "final") => detected_tags' = detected_tags
         ]_vars

\* C5 witness: five distinct tags were seen, one of them 29 characters long and
\* one empty, and the first four were returned.
C5_Witness ==
    /\ Returned
    /\ Len(detected_tags) = 5
    /\ Len(analysis.tags) = 4
    /\ \E i \in 1..4 : Len(analysis.tags[i]) = 29
    /\ \E i \in 1..5 : detected_tags[i] = <<>>

\* C6: the sample of a non-empty path is the points at indices 0, s, 2s, ...
\* with s = max(1, floor(len(path) / 10)), cut to 10 points: at most 10 points,
\* the first one path[0], in the order of the path.
C6_Sampling ==
    pc \in {"danger", "rec", "final"} =>
        LET n == Len(path)
            s == Max(1, n \div 10)
            m == Len(sampled_points)
        IN  /\ m <= 10
            /\ m >= 1
            /\ sampled_points[1] = path[1]
            /\ \A j \in 1..m : (j - 1) * s + 1 <= n /\ sampled_points[j] = path[(j - 1) * s + 1]
            /\ m < 10 => m * s + 1 > n

\* C6 witness: a path of more than 20 points is sampled with stride 2 and cut
\* to 10 points, the last of them before the end of the path.
C6_Witness ==
    /\ pc = "final"
    /\ Len(path) > 22
    /\ Len(sampled_points) = 10
    /\ sampled_points[10] = path[19]

\* C3: a query that raises is treated as returning no hits, and the failure
\* never leaves the scoring pass.
C3_QueryFailureAbsorbed == pc # "QueryError"

Available(a, b) == a # <<>> /\ b # <<>>

\* The candidates of generate_real_paths that are available, in its order.
Candidates ==
    (IF legs.direct # <<>> THEN <<legs.direct>> ELSE <<>>)
    \o (IF Available(legs.alt1_a, legs.alt1_b)
        THEN <<legs.alt1_a \o Tail(legs.alt1_b)>> ELSE <<>>)
    \o (IF Available(legs.alt2_a, legs.alt2_b)
        THEN <<legs.alt2_a \o Tail(legs.alt2_b)>> ELSE <<>>)

\* C7: generate_real_paths returns at least one path; with the direct route
\* and both alternates unavailable (an alternate is unavailable when either of
\* its legs has no geometry) it returns exactly [start, end]; otherwise it
\* returns the available candidates and no fallback.
C7_AtLeastOnePath ==
    pc # "idle" =>
        /\ Len(paths) >= 1
        /\ Candidates = <<>> => paths = << <<start, end>> >>
        /\ Candidates # <<>> =>
             /\ paths = Candidates
             /\ \A i \in 1..Len(paths) : paths[i] # <<start, end>>

\* C7 witness: every candidate failed, the north alternate by its second leg
\* alone, and the straight line was returned.
C7_Witness ==
    /\ pc # "idle"
    /\ legs.direct = <<>>
    /\ legs.alt1_a # <<>>
    /\ legs.alt1_b = <<>>
    /\ ~Available(legs.alt2_a, legs.alt2_b)
    /\ paths = << <<start, end>> >>

\* C8: no user submission with a latitude outside [-90, 90], a longitude
\* outside [-180, 180] or an empty description is written to the index.
C8_InvalidReportRejected ==
    \A r \in store :
        r.id.kind = "uuid" =>
            /\ r.payload.location.lat >= -900000
            /\ r.payload.location.lat <= 900000
            /\ r.payload.location.lon >= -1800000
            /\ r.payload.location.lon <= 1800000
            /\ r.payload.text # EmptyText

\* A startup has written seed points to the collection.
Populated == \E r \in store : r.id.kind = "int"

\* C9: once a startup has populated the collection, a later startup leaves the
\* points of the index as they are.
C9_SeedingIdempotent ==
    [][(Populated /\ startups' = startups + 1) =>
          /\ store' = store
          /\ collections' = collections]_vars

\* C9 witness: the process has started again on a populated collection that
\* holds a user submission as well.
C9_Witness ==
    /\ startups >= 2
    /\ report_status = "none"
    /\ Populated
    /\ \E r \in store : r.id.kind = "uuid"

\* C10: generate_real_paths returns 1 to 3 paths, each with at least one
\* point, so that get_routes neither indexes descriptions out of range nor
\* calls score_route on an empty path.
C10_PathsWellFormed ==
    /\ pc # "idle" =>
         /\ Len(paths) >= 1
         /\ Len(paths) <= Len(descriptions)
         /\ \A i \in 1..Len(paths) : Len(paths[i]) >= 1
    /\ pc \notin {"ZeroDivisionError", "IndexError"}
    /\ pc \in {"danger", "rec", "final"} => Len(path) >= 1 /\ route_i < Len(descriptions)

\* C10 witness: three paths were returned, an alternate whose second leg has a
\* single point among them, and all three were scored.
C10_Witness ==
    /\ pc = "responded"
    /\ Len(paths) = 3
    /\ Len(response) = 3
    /\ Len(legs.alt1_a) = 1
    /\ Len(legs.alt1_b) = 1
    /\ Len(paths[2]) = 1

====
